---- MODULE Spec2Model ----
(***************************************************************************)
(* LocalSystem of systems/local.go: construction, the data source          *)
(* registry, Shutdown, HighMemoryConsumption and the memory consumption    *)
(* monitor goroutine, as one state machine.  Every goroutine is a thread   *)
(* with a program counter; one action is one statement (or one select      *)
(* case) of the Go code.                                                   *)
(***************************************************************************)
EXTENDS Integers, Sequences, FiniteSets, TLC

\* ---------------------------------------------------------------- bounds
\* goroutines calling Shutdown()
NumShutdownCallers == 2
\* Shutdown() calls made in one run (the constructor's own call included)
MaxShutdownCalls == 2
\* goroutines calling HighMemoryConsumption()
NumMemCallers == 2
\* goroutines that each register one collector of their own
NumAdders == 2
\* length of the list handed to SetDataSources
SetLen == 2
\* DataSources() calls made by the reading goroutine
MaxReads == 2
\* ticks are not taken once count has reached this value
MaxStreak == 13
\* distinct allocation readings just above the initial threshold
NumRising == 13
\* distinct allocation readings just above the once raised threshold
NumHigher == 2
\* where only highConsumption matters, ticks are not taken once count has
\* reached this value
MaxQueryStreak == 2

\* ------------------------------------------------------ program constants
\* make(chan *memRequest, 2)
MemReqCap == 2
\* interval := 10 * time.Second
IntervalSec == 10
\* (2 * time.Minute)
WindowSec == 120
\* maxCount := int((2 * time.Minute) / interval)
maxCount == WindowSec \div IntervalSec
\* curNormal = 1073741824 // one gigabyte
OneGigabyte == 1073741824

\* ---------------------------------------------------------------- threads
Main == <<"main", 0>>
Setter == <<"set", 0>>
Reader == <<"read", 0>>
ShutdownCallers == {<<"shut", i>> : i \in 1..NumShutdownCallers}
MemCallers == {<<"mem", i>> : i \in 1..NumMemCallers}
Adders == {<<"add", i>> : i \in 1..NumAdders}
Threads == {Main, Setter, Reader} \cup ShutdownCallers \cup MemCallers \cup Adders
NoThread == <<"none", 0>>

\* requests.Service values: adder i registers collector i, SetDataSources
\* is handed the collectors after those.
Collectors == 1..(NumAdders + SetLen)
SetList == [i \in 1..SetLen |-> NumAdders + i]
\* the graph databases setupGraphDBs can open, in the order it opens them
Backends == {"gremlin", "cayley"}

VARIABLES
    cfg,                \* config.Config: which graph databases are configured
    pool,               \* l.pool: "nil", "running" or "stopped"
    graphs,             \* l.graphs
    closeCount,         \* Close() calls received by each graph
    dataSources,        \* l.dataSources
    mu,                 \* the embedded sync.Mutex: its holder, or NoThread
    done,               \* l.done: "open" or "closed"
    doneAlreadyClosed,  \* l.doneAlreadyClosed
    memReq,             \* l.memReq: the callers whose request is buffered
    memReqClosed,       \* whether l.memReq has been closed
    resultCh,           \* memRequest.Result of each caller's request
    wdpc,               \* memConsumptionMonitor: "none", "loop", "drain", "close",
                        \* "exited"
    count,              \* memConsumptionMonitor's count
    highConsumption,    \* memConsumptionMonitor's highConsumption
    prevAlloc,          \* memConsumptionMonitor's prevAlloc
    curNormal,          \* memConsumptionMonitor's curNormal
    startRes,           \* result of each collector's Start(): "none", "ok", "err"
    stopped,            \* whether Stop() has been called on each collector
    pc,                 \* position of each thread
    op,                 \* the exported function each thread called last
    snap,               \* the slice DataSources() returned to each thread
    idx,                \* loop index of each thread's range loop
    tmp,                \* the slice read by append in AddSource
    late,               \* whether the thread's call began after a Shutdown() returned
    ret,                \* value returned by each thread's last call
    shutReturned,       \* number of Shutdown() calls that have returned
    panicked,           \* "no", or the panic that ended the process: "close of
                        \* closed channel", "send on closed channel" or
                        \* "nil pointer dereference"
    runLen,             \* history: length of the current run of rising samples
    runBase,            \* history: curNormal when that run began
    hPrevAbove,         \* history: the sample before the latest was > curNormal
    hBelow              \* history: latest sample was <= curNormal at its tick

sysVars == <<cfg, pool, graphs, closeCount>>
regVars == <<dataSources, mu>>
sigVars == <<done, doneAlreadyClosed>>
chanVars == <<memReq, memReqClosed, resultCh>>
monVars == <<count, highConsumption, prevAlloc, curNormal>>
histVars == <<runLen, runBase, hPrevAbove, hBelow>>
srvVars == <<startRes, stopped>>
locVars == <<snap, idx, tmp, late>>
vars == <<cfg, pool, graphs, closeCount, dataSources, mu, done, doneAlreadyClosed,
          memReq, memReqClosed, resultCh, wdpc, count, highConsumption, prevAlloc,
          curNormal, startRes, stopped, pc, op, snap, idx, tmp, late, ret,
          shutReturned, panicked, runLen, runBase, hPrevAbove, hBelow>>

Range(s) == {s[i] : i \in 1..Len(s)}
IsPrefix(s, t) == Len(s) <= Len(t) /\ SubSeq(t, 1, Len(s)) = s

\* The state before NewLocalSystem is called with some configuration.
Init ==
    /\ cfg \in [gremlin : BOOLEAN, localdb : BOOLEAN]
    /\ pool = "nil"
    /\ graphs = <<>>
    /\ closeCount = [g \in Backends |-> 0]
    /\ dataSources = <<>>
    /\ mu = NoThread
    /\ done = "open"
    /\ doneAlreadyClosed = FALSE
    /\ memReq = <<>>
    /\ memReqClosed = FALSE
    /\ resultCh = [t \in Threads |-> <<>>]
    /\ wdpc = "none"
    /\ count = 0
    /\ highConsumption = FALSE
    /\ prevAlloc = 0
    /\ curNormal = 0
    /\ startRes = [c \in Collectors |-> "none"]
    /\ stopped = [c \in Collectors |-> FALSE]
    /\ pc = [t \in Threads |-> IF t = Main THEN "new_check" ELSE "idle"]
    /\ op = [t \in Threads |-> IF t = Main THEN "NewLocalSystem" ELSE "none"]
    /\ snap = [t \in Threads |-> <<>>]
    /\ idx = [t \in Threads |-> 0]
    /\ tmp = [t \in Threads |-> <<>>]
    /\ late = [t \in Threads |-> FALSE]
    /\ ret = [t \in Threads |-> "none"]
    /\ shutReturned = 0
    /\ panicked = "no"
    /\ runLen = 0
    /\ runBase = 0
    /\ hPrevAbove = FALSE
    /\ hBelow = FALSE

\* NewLocalSystem returned a *LocalSystem: other goroutines can use it.
Ready == pc[Main] = "ready"

\* ------------------------------------------------------- NewLocalSystem
\* c.CheckSettings()
NewCheckSettings(t, ok) ==
    /\ panicked = "no"
    /\ pc[t] = "new_check"
    /\ pc' = [pc EXCEPT ![t] = IF ok THEN "new_pool" ELSE "failed"]
    /\ ret' = [ret EXCEPT ![t] = IF ok THEN "none" ELSE "err"]
    /\ UNCHANGED <<sysVars, regVars, sigVars, chanVars, wdpc, monVars, histVars,
                   srvVars, op, locVars, shutReturned, panicked>>


\* NewSetupPool without the test pool == nil: construction goes on.
NewSetupPoolNoNilCheck(t, ok) ==
    /\ panicked = "no"
    /\ pc[t] = "new_pool"
    /\ pool' = IF ok THEN "running" ELSE "nil"
    /\ pc' = [pc EXCEPT ![t] = "new_gremlin"]
    /\ UNCHANGED <<cfg, graphs, closeCount, regVars, sigVars, chanVars, wdpc, monVars,
                   histVars, srvVars, op, locVars, ret, shutReturned, panicked>>

\* resolvers.SetupResolverPool; if pool == nil, the error "The system was
\* unable to build the pool of resolvers" is returned; else sys is constructed
NewSetupPool(t, ok) ==
    /\ panicked = "no"
    /\ pc[t] = "new_pool"
    /\ pool' = IF ok THEN "running" ELSE "nil"
    /\ pc' = [pc EXCEPT ![t] = IF ok THEN "new_gremlin" ELSE "failed"]
    /\ ret' = [ret EXCEPT ![t] = IF ok THEN "none" ELSE "err: no resolver pool"]
    /\ UNCHANGED <<cfg, graphs, closeCount, regVars, sigVars, chanVars, wdpc, monVars,
                   histVars, srvVars, op, locVars, shutReturned, panicked>>


\* setupGraphDBs, first block: the Gremlin graph.  On an error NewLocalSystem
\* calls sys.Shutdown() before it returns the error.
SetupGremlin(t, ok) ==
    /\ panicked = "no"
    /\ pc[t] = "new_gremlin"
    /\ IF ~cfg.gremlin
       THEN /\ pc' = [pc EXCEPT ![t] = "new_cayley"]
            /\ UNCHANGED graphs
       ELSE IF ok
       THEN /\ graphs' = Append(graphs, "gremlin")
            /\ pc' = [pc EXCEPT ![t] = "new_cayley"]
       ELSE /\ pc' = [pc EXCEPT ![t] = "sd_check"]
            /\ UNCHANGED graphs
    /\ UNCHANGED <<cfg, pool, closeCount, regVars, sigVars, chanVars, wdpc, monVars,
                   histVars, srvVars, op, locVars, ret, shutReturned, panicked>>


\* SetupCayley returning its error without the call of sys.Shutdown().
SetupCayleyNoShutdown(t, ok) ==
    /\ panicked = "no"
    /\ pc[t] = "new_cayley"
    /\ IF ~cfg.localdb
       THEN /\ pc' = [pc EXCEPT ![t] = "new_go"]
            /\ UNCHANGED <<graphs, ret>>
       ELSE IF ok
       THEN /\ graphs' = Append(graphs, "cayley")
            /\ pc' = [pc EXCEPT ![t] = "new_go"]
            /\ UNCHANGED ret
       ELSE /\ pc' = [pc EXCEPT ![t] = "failed"]
            /\ ret' = [ret EXCEPT ![t] = "err"]
            /\ UNCHANGED graphs
    /\ UNCHANGED <<cfg, pool, closeCount, regVars, sigVars, chanVars, wdpc, monVars,
                   histVars, srvVars, op, locVars, shutReturned, panicked>>

\* setupGraphDBs, second block: the local Cayley graph.
SetupCayley(t, ok) ==
    /\ panicked = "no"
    /\ pc[t] = "new_cayley"
    /\ IF ~cfg.localdb
       THEN /\ pc' = [pc EXCEPT ![t] = "new_go"]
            /\ UNCHANGED graphs
       ELSE IF ok
       THEN /\ graphs' = Append(graphs, "cayley")
            /\ pc' = [pc EXCEPT ![t] = "new_go"]
       ELSE /\ pc' = [pc EXCEPT ![t] = "sd_check"]
            /\ UNCHANGED graphs
    /\ UNCHANGED <<cfg, pool, closeCount, regVars, sigVars, chanVars, wdpc, monVars,
                   histVars, srvVars, op, locVars, ret, shutReturned, panicked>>


\* setupGraphDBs, the error paths of both blocks: the message is built with
\* String() called on the value that was just found to be nil.  Where that
\* method reads its receiver the call panics, and nothing after it runs.
SetupNilString(t) ==
    /\ panicked = "no"
    /\ \/ pc[t] = "new_gremlin" /\ cfg.gremlin
       \/ pc[t] = "new_cayley" /\ cfg.localdb
    /\ panicked' = "nil pointer dereference"
    /\ pc' = [pc EXCEPT ![t] = "panic"]
    /\ UNCHANGED <<sysVars, regVars, sigVars, chanVars, wdpc, monVars, histVars,
                   srvVars, op, locVars, ret, shutReturned>>

\* go sys.memConsumptionMonitor(); return sys, nil.  The goroutine's
\* declarations run before its first select.
NewStartMonitor(t) ==
    /\ panicked = "no"
    /\ pc[t] = "new_go"
    /\ wdpc' = "loop"
    /\ count' = 0
    /\ highConsumption' = FALSE
    /\ prevAlloc' = 0
    /\ curNormal' = OneGigabyte
    /\ pc' = [pc EXCEPT ![t] = "ready"]
    /\ ret' = [ret EXCEPT ![t] = "sys"]
    /\ UNCHANGED <<sysVars, regVars, sigVars, chanVars, histVars, srvVars, op,
                   locVars, shutReturned, panicked>>


\* A mutex that lets every caller in.
CanLockAlways(t) == TRUE

\* ------------------------------------------------------------- registry
\* l.Lock(): the caller proceeds once nobody holds the mutex.
CanLock(t) == mu = NoThread

\* The collector a registering thread is working on.
CurSrc(t) == IF t = Setter THEN SetList[idx[t]] ELSE t[2]

\* AddAndStart(srv) by a goroutine of its own.
AddAndStartCall(t) ==
    /\ panicked = "no"
    /\ Ready /\ pc[t] = "idle" /\ op[t] = "none"
    /\ op' = [op EXCEPT ![t] = "AddAndStart"]
    /\ pc' = [pc EXCEPT ![t] = "start"]
    /\ late' = [late EXCEPT ![t] = shutReturned >= 1]
    /\ UNCHANGED <<sysVars, regVars, sigVars, chanVars, wdpc, monVars, histVars,
                   srvVars, snap, idx, tmp, ret, shutReturned, panicked>>

\* AddSource(srv) by a goroutine of its own.
AddSourceCall(t) ==
    /\ panicked = "no"
    /\ Ready /\ pc[t] = "idle" /\ op[t] = "none"
    /\ op' = [op EXCEPT ![t] = "AddSource"]
    /\ pc' = [pc EXCEPT ![t] = "as_lock"]
    /\ late' = [late EXCEPT ![t] = shutReturned >= 1]
    /\ UNCHANGED <<sysVars, regVars, sigVars, chanVars, wdpc, monVars, histVars,
                   srvVars, snap, idx, tmp, ret, shutReturned, panicked>>

\* SetDataSources(sources): the range loop starts at the first entry.
SetDataSourcesCall(t) ==
    /\ panicked = "no"
    /\ Ready /\ pc[t] = "idle" /\ op[t] = "none"
    /\ op' = [op EXCEPT ![t] = "SetDataSources"]
    /\ idx' = [idx EXCEPT ![t] = 1]
    /\ pc' = [pc EXCEPT ![t] = IF SetLen = 0 THEN "idle" ELSE "start"]
    /\ ret' = [ret EXCEPT ![t] = IF SetLen = 0 THEN "void" ELSE "none"]
    /\ late' = [late EXCEPT ![t] = shutReturned >= 1]
    /\ UNCHANGED <<sysVars, regVars, sigVars, chanVars, wdpc, monVars, histVars,
                   srvVars, snap, tmp, shutReturned, panicked>>

\* The pc after AddAndStart returns: SetDataSources drops the result and
\* goes on with the next entry, a direct caller gets the result.
AfterAddAndStart(t) ==
    IF op[t] = "SetDataSources" /\ idx[t] < SetLen THEN "start" ELSE "idle"

RetAfterAddAndStart(t, val) ==
    IF op[t] = "SetDataSources"
    THEN IF idx[t] < SetLen THEN "none" ELSE "void"
    ELSE val

IdxAfterAddAndStart(t) ==
    IF op[t] = "SetDataSources" THEN idx[t] + 1 ELSE idx[t]


\* Start with the error of srv.Start() ignored: AddSource is called anyway.
StartIgnoringError(t, ok) ==
    /\ panicked = "no"
    /\ pc[t] = "start"
    /\ startRes' = [startRes EXCEPT ![CurSrc(t)] = IF ok THEN "ok" ELSE "err"]
    /\ pc' = [pc EXCEPT ![t] = "as_lock"]
    /\ UNCHANGED <<sysVars, regVars, sigVars, chanVars, wdpc, monVars, histVars,
                   stopped, op, locVars, ret, shutReturned, panicked>>

\* err := srv.Start(); on an error AddAndStart returns it.
Start(t, ok) ==
    /\ panicked = "no"
    /\ pc[t] = "start"
    /\ startRes' = [startRes EXCEPT ![CurSrc(t)] = IF ok THEN "ok" ELSE "err"]
    /\ IF ok
       THEN /\ pc' = [pc EXCEPT ![t] = "as_lock"]
            /\ UNCHANGED <<ret, idx>>
       ELSE /\ pc' = [pc EXCEPT ![t] = AfterAddAndStart(t)]
            /\ ret' = [ret EXCEPT ![t] = RetAfterAddAndStart(t, "err")]
            /\ idx' = [idx EXCEPT ![t] = IdxAfterAddAndStart(t)]
    /\ UNCHANGED <<sysVars, regVars, sigVars, chanVars, wdpc, monVars, histVars,
                   stopped, op, snap, tmp, late, shutReturned, panicked>>

\* AddSource: l.Lock()
AddSourceLock(t) ==
    /\ panicked = "no"
    /\ pc[t] = "as_lock"
    /\ CanLock(t)
    /\ mu' = t
    /\ pc' = [pc EXCEPT ![t] = "as_read"]
    /\ UNCHANGED <<sysVars, dataSources, sigVars, chanVars, wdpc, monVars, histVars,
                   srvVars, op, locVars, ret, shutReturned, panicked>>

\* AddSource: append(l.dataSources, srv) reads the slice
AddSourceRead(t) ==
    /\ panicked = "no"
    /\ pc[t] = "as_read"
    /\ tmp' = [tmp EXCEPT ![t] = dataSources]
    /\ pc' = [pc EXCEPT ![t] = "as_write"]
    /\ UNCHANGED <<sysVars, regVars, sigVars, chanVars, wdpc, monVars, histVars,
                   srvVars, op, snap, idx, late, ret, shutReturned, panicked>>

\* AddSource: l.dataSources = <the appended slice>; return nil, with the
\* deferred l.Unlock().
AddSourceWrite(t) ==
    /\ panicked = "no"
    /\ pc[t] = "as_write"
    /\ dataSources' = Append(tmp[t], CurSrc(t))
    /\ mu' = NoThread
    /\ pc' = [pc EXCEPT ![t] = AfterAddAndStart(t)]
    /\ ret' = [ret EXCEPT ![t] = RetAfterAddAndStart(t, "nil")]
    /\ idx' = [idx EXCEPT ![t] = IdxAfterAddAndStart(t)]
    /\ UNCHANGED <<sysVars, sigVars, chanVars, wdpc, monVars, histVars, srvVars, op,
                   snap, tmp, late, shutReturned, panicked>>

\* DataSources() by the reading goroutine.
DataSourcesCall(t) ==
    /\ panicked = "no"
    /\ Ready /\ pc[t] = "idle" /\ idx[t] < MaxReads
    /\ op' = [op EXCEPT ![t] = "DataSources"]
    /\ idx' = [idx EXCEPT ![t] = idx[t] + 1]
    /\ pc' = [pc EXCEPT ![t] = "ds_lock"]
    /\ ret' = [ret EXCEPT ![t] = "none"]
    /\ late' = [late EXCEPT ![t] = shutReturned >= 1]
    /\ UNCHANGED <<sysVars, regVars, sigVars, chanVars, wdpc, monVars, histVars,
                   srvVars, snap, tmp, shutReturned, panicked>>

\* DataSources: l.Lock()
DataSourcesLock(t) ==
    /\ panicked = "no"
    /\ pc[t] = "ds_lock"
    /\ CanLock(t)
    /\ mu' = t
    /\ pc' = [pc EXCEPT ![t] = "ds_ret"]
    /\ UNCHANGED <<sysVars, dataSources, sigVars, chanVars, wdpc, monVars, histVars,
                   srvVars, op, locVars, ret, shutReturned, panicked>>

\* Where Shutdown goes on after its range over the data sources.
AfterStops == IF Len(graphs) = 0 THEN "sd_pool" ELSE "sd_closeg"

\* DataSources: return l.dataSources, with the deferred l.Unlock().  Inside
\* Shutdown the range loop over the returned slice follows.
DataSourcesReturn(t) ==
    /\ panicked = "no"
    /\ pc[t] = "ds_ret"
    /\ snap' = [snap EXCEPT ![t] = dataSources]
    /\ mu' = NoThread
    /\ IF op[t] = "DataSources"
       THEN /\ pc' = [pc EXCEPT ![t] = "idle"]
            /\ ret' = [ret EXCEPT ![t] = "list"]
            /\ UNCHANGED idx
       ELSE /\ pc' = [pc EXCEPT ![t] = IF Len(dataSources) = 0 THEN AfterStops
                                       ELSE "sd_stop"]
            /\ idx' = [idx EXCEPT ![t] = 1]
            /\ UNCHANGED ret
    /\ UNCHANGED <<sysVars, dataSources, sigVars, chanVars, wdpc, monVars, histVars,
                   srvVars, op, tmp, late, shutReturned, panicked>>

\* ------------------------------------------------------------- Shutdown
\* The thread is inside Shutdown (its call of DataSources included).
InShutdown(t) ==
    \/ pc[t] \in {"sd_check", "sd_set", "sd_close", "sd_stop", "sd_closeg", "sd_pool"}
    \/ pc[t] \in {"ds_lock", "ds_ret"} /\ op[t] # "DataSources"

ShutdownsBegun == shutReturned + Cardinality({t \in Threads : InShutdown(t)})

\* Shutdown() called on the system NewLocalSystem returned.
ShutdownCall(t) ==
    /\ panicked = "no"
    /\ Ready /\ pc[t] = "idle"
    /\ ShutdownsBegun < MaxShutdownCalls
    /\ op' = [op EXCEPT ![t] = "Shutdown"]
    /\ pc' = [pc EXCEPT ![t] = "sd_check"]
    /\ ret' = [ret EXCEPT ![t] = "none"]
    /\ late' = [late EXCEPT ![t] = shutReturned >= 1]
    /\ UNCHANGED <<sysVars, regVars, sigVars, chanVars, wdpc, monVars, histVars,
                   srvVars, snap, idx, tmp, shutReturned, panicked>>


\* ShutdownCheck without the test of l.doneAlreadyClosed: every call closes.
ShutdownCheckNoFlag(t) ==
    /\ panicked = "no"
    /\ pc[t] = "sd_check"
    /\ pc' = [pc EXCEPT ![t] = "sd_set"]
    /\ UNCHANGED <<sysVars, regVars, sigVars, chanVars, wdpc, monVars, histVars,
                   srvVars, op, locVars, ret, shutReturned, panicked>>

\* if !l.doneAlreadyClosed: the flag is read without any lock held
ShutdownCheck(t) ==
    /\ panicked = "no"
    /\ pc[t] = "sd_check"
    /\ pc' = [pc EXCEPT ![t] = IF ~doneAlreadyClosed THEN "sd_set" ELSE "ds_lock"]
    /\ UNCHANGED <<sysVars, regVars, sigVars, chanVars, wdpc, monVars, histVars,
                   srvVars, op, locVars, ret, shutReturned, panicked>>

\* l.doneAlreadyClosed = true
ShutdownSetFlag(t) ==
    /\ panicked = "no"
    /\ pc[t] = "sd_set"
    /\ doneAlreadyClosed' = TRUE
    /\ pc' = [pc EXCEPT ![t] = "sd_close"]
    /\ UNCHANGED <<sysVars, regVars, done, chanVars, wdpc, monVars, histVars,
                   srvVars, op, locVars, ret, shutReturned, panicked>>

\* close(l.done): closing a closed channel panics
ShutdownCloseDone(t) ==
    /\ panicked = "no"
    /\ pc[t] = "sd_close"
    /\ IF done = "closed"
       THEN /\ panicked' = "close of closed channel"
            /\ pc' = [pc EXCEPT ![t] = "panic"]
            /\ UNCHANGED done
       ELSE /\ done' = "closed"
            /\ pc' = [pc EXCEPT ![t] = "ds_lock"]
            /\ UNCHANGED panicked
    /\ UNCHANGED <<sysVars, regVars, doneAlreadyClosed, chanVars, wdpc, monVars,
                   histVars, srvVars, op, locVars, ret, shutReturned>>

\* for _, src := range l.DataSources() { src.Stop() }: one iteration
ShutdownStop(t) ==
    /\ panicked = "no"
    /\ pc[t] = "sd_stop"
    /\ stopped' = [stopped EXCEPT ![snap[t][idx[t]]] = TRUE]
    /\ idx' = [idx EXCEPT ![t] = IF idx[t] < Len(snap[t]) THEN idx[t] + 1 ELSE 1]
    /\ pc' = [pc EXCEPT ![t] = IF idx[t] < Len(snap[t]) THEN "sd_stop" ELSE AfterStops]
    /\ UNCHANGED <<sysVars, regVars, sigVars, chanVars, wdpc, monVars, histVars,
                   startRes, op, snap, tmp, late, ret, shutReturned, panicked>>


\* ShutdownCloseGraph leaving the loop after its first iteration.
ShutdownCloseGraphFirstOnly(t) ==
    /\ panicked = "no"
    /\ pc[t] = "sd_closeg"
    /\ closeCount' = [closeCount EXCEPT ![graphs[idx[t]]] = @ + 1]
    /\ idx' = [idx EXCEPT ![t] = 1]
    /\ pc' = [pc EXCEPT ![t] = "sd_pool"]
    /\ UNCHANGED <<cfg, pool, graphs, regVars, sigVars, chanVars, wdpc, monVars,
                   histVars, srvVars, op, snap, tmp, late, ret, shutReturned, panicked>>

\* for _, g := range l.GraphDatabases() { g.Close() }: one iteration
ShutdownCloseGraph(t) ==
    /\ panicked = "no"
    /\ pc[t] = "sd_closeg"
    /\ closeCount' = [closeCount EXCEPT ![graphs[idx[t]]] = @ + 1]
    /\ idx' = [idx EXCEPT ![t] = IF idx[t] < Len(graphs) THEN idx[t] + 1 ELSE 1]
    /\ pc' = [pc EXCEPT ![t] = IF idx[t] < Len(graphs) THEN "sd_closeg" ELSE "sd_pool"]
    /\ UNCHANGED <<cfg, pool, graphs, regVars, sigVars, chanVars, wdpc, monVars,
                   histVars, srvVars, op, snap, tmp, late, ret, shutReturned, panicked>>

\* l.pool.Stop(); return nil.  NewLocalSystem then returns nil and the error.
ShutdownPoolStop(t) ==
    /\ panicked = "no"
    /\ pc[t] = "sd_pool"
    /\ pool' = "stopped"
    /\ shutReturned' = shutReturned + 1
    /\ pc' = [pc EXCEPT ![t] = IF t = Main THEN "failed" ELSE "idle"]
    /\ ret' = [ret EXCEPT ![t] = IF t = Main THEN "err" ELSE "nil"]
    /\ UNCHANGED <<cfg, graphs, closeCount, regVars, sigVars, chanVars, wdpc, monVars,
                   histVars, srvVars, op, locVars, panicked>>

\* ------------------------------------------------ HighMemoryConsumption
HighMemoryConsumptionCall(t) ==
    /\ panicked = "no"
    /\ Ready /\ pc[t] = "idle"
    /\ op' = [op EXCEPT ![t] = "HighMemoryConsumption"]
    /\ pc' = [pc EXCEPT ![t] = "hm_check"]
    /\ ret' = [ret EXCEPT ![t] = "none"]
    /\ late' = [late EXCEPT ![t] = shutReturned >= 1]
    /\ UNCHANGED <<sysVars, regVars, sigVars, chanVars, wdpc, monVars, histVars,
                   srvVars, snap, idx, tmp, shutReturned, panicked>>


\* HighMemoryCheck without the test of l.doneAlreadyClosed.
HighMemoryCheckNoFlag(t) ==
    /\ panicked = "no"
    /\ pc[t] = "hm_check"
    /\ pc' = [pc EXCEPT ![t] = "hm_send"]
    /\ resultCh' = [resultCh EXCEPT ![t] = <<>>]
    /\ UNCHANGED <<sysVars, regVars, sigVars, memReq, memReqClosed, wdpc, monVars,
                   histVars, srvVars, op, locVars, ret, shutReturned>>
    /\ UNCHANGED panicked

\* if l.doneAlreadyClosed { return false }; result := make(chan bool, 2)
HighMemoryCheck(t) ==
    /\ panicked = "no"
    /\ pc[t] = "hm_check"
    /\ IF doneAlreadyClosed
       THEN /\ pc' = [pc EXCEPT ![t] = "idle"]
            /\ ret' = [ret EXCEPT ![t] = "false"]
            /\ UNCHANGED resultCh
       ELSE /\ pc' = [pc EXCEPT ![t] = "hm_send"]
            /\ resultCh' = [resultCh EXCEPT ![t] = <<>>]
            /\ UNCHANGED ret
    /\ UNCHANGED <<sysVars, regVars, sigVars, memReq, memReqClosed, wdpc, monVars,
                   histVars, srvVars, op, locVars, shutReturned, panicked>>

\* l.memReq <- &memRequest{Result: result}: blocks while the buffer is full,
\* panics on a closed channel
HighMemorySend(t) ==
    /\ panicked = "no"
    /\ pc[t] = "hm_send"
    /\ IF memReqClosed
       THEN /\ panicked' = "send on closed channel"
            /\ pc' = [pc EXCEPT ![t] = "panic"]
            /\ UNCHANGED memReq
       ELSE /\ Len(memReq) < MemReqCap
            /\ memReq' = Append(memReq, t)
            /\ pc' = [pc EXCEPT ![t] = "hm_recv"]
            /\ UNCHANGED panicked
    /\ UNCHANGED <<sysVars, regVars, sigVars, memReqClosed, resultCh, wdpc, monVars,
                   histVars, srvVars, op, locVars, ret, shutReturned>>

\* return <-result
HighMemoryRecv(t) ==
    /\ panicked = "no"
    /\ pc[t] = "hm_recv"
    /\ Len(resultCh[t]) > 0
    /\ ret' = [ret EXCEPT ![t] = IF Head(resultCh[t]) THEN "true" ELSE "false"]
    /\ resultCh' = [resultCh EXCEPT ![t] = Tail(@)]
    /\ pc' = [pc EXCEPT ![t] = "idle"]
    /\ UNCHANGED <<sysVars, regVars, sigVars, memReq, memReqClosed, wdpc, monVars,
                   histVars, srvVars, op, locVars, shutReturned, panicked>>


\* Sample with the two tests in the other order: the streak is updated
\* first, and the threshold is raised at the tick that completes the window.
SampleRaiseAfterCount(w, a) ==
    LET cnt == IF a > w.curNormal THEN w.count + 1 ELSE 0
        raise == cnt >= maxCount /\ a > w.prevAlloc
    IN  [count |-> IF raise THEN 0 ELSE cnt,
         highConsumption |-> a > w.curNormal,
         prevAlloc |-> a,
         curNormal |-> IF raise THEN w.curNormal + w.curNormal \div 4
                       ELSE w.curNormal]

\* Sample without count = 0 in the else branch.
SampleNoReset(w, a) ==
    LET raise == w.count >= maxCount /\ a > w.prevAlloc
        normal == IF raise THEN w.curNormal + w.curNormal \div 4 ELSE w.curNormal
        cnt == IF raise THEN 0 ELSE w.count
    IN  [count |-> IF a > normal THEN cnt + 1 ELSE cnt,
         highConsumption |-> a > normal,
         prevAlloc |-> a,
         curNormal |-> normal]

\* Sample that falls back to the initial threshold at a reading below it.
SampleLowering(w, a) ==
    LET raise == w.count >= maxCount /\ a > w.prevAlloc
        normal == IF raise THEN w.curNormal + w.curNormal \div 4
                  ELSE IF a < OneGigabyte THEN OneGigabyte ELSE w.curNormal
        cnt == IF raise THEN 0 ELSE w.count
    IN  [count |-> IF a > normal THEN cnt + 1 ELSE 0,
         highConsumption |-> a > normal,
         prevAlloc |-> a,
         curNormal |-> normal]


\* Sample without the test stats.Alloc > prevAlloc: a full window raises the
\* threshold whatever the latest sample is.
SampleRaiseWithoutGrowth(w, a) ==
    LET raise == w.count >= maxCount
        normal == IF raise THEN w.curNormal + w.curNormal \div 4 ELSE w.curNormal
        cnt == IF raise THEN 0 ELSE w.count
    IN  [count |-> IF a > normal THEN cnt + 1 ELSE 0,
         highConsumption |-> a > normal,
         prevAlloc |-> a,
         curNormal |-> normal]

\* ------------------------------------------------ memConsumptionMonitor
\* The case <-t.C of the select, for a reading a of stats.Alloc: the
\* monitor's variables after it.
Sample(w, a) ==
    LET raise == w.count >= maxCount /\ a > w.prevAlloc
        normal == IF raise THEN w.curNormal + w.curNormal \div 4 ELSE w.curNormal
        cnt == IF raise THEN 0 ELSE w.count
    IN  [count |-> IF a > normal THEN cnt + 1 ELSE 0,
         highConsumption |-> a > normal,
         prevAlloc |-> a,
         curNormal |-> normal]

Monitor == [count |-> count, highConsumption |-> highConsumption,
            prevAlloc |-> prevAlloc, curNormal |-> curNormal]

\* The readings of stats.Alloc the model draws from: nothing allocated, exactly
\* the initial threshold, readings above it, readings above the threshold
\* raised once.  All values stay below 2^31, far from the width of uint64.
AllocSamples ==
    {0, OneGigabyte}
    \cup {OneGigabyte + k : k \in 1..NumRising}
    \cup {OneGigabyte + OneGigabyte \div 4 + k : k \in 1..NumHigher}

\* A run of samples as in the adaptation property: it begins at count 0 with
\* a sample above curNormal, and goes on while each sample is above that
\* threshold and above the sample before it.
RunContinues(a) == runLen >= 1 /\ runLen <= maxCount /\ a > runBase /\ a > prevAlloc
RunStarts(a) == count = 0 /\ a > curNormal /\ a > prevAlloc


\* MonitorTick taken in the second loop as well: sampling goes on after the
\* monitor has seen l.done closed.
MonitorTickWhileDraining(a) ==
    /\ panicked = "no"
    /\ wdpc \in {"loop", "drain"}
    /\ count < MaxStreak
    /\ count' = Sample(Monitor, a).count
    /\ highConsumption' = Sample(Monitor, a).highConsumption
    /\ prevAlloc' = Sample(Monitor, a).prevAlloc
    /\ curNormal' = Sample(Monitor, a).curNormal
    /\ hPrevAbove' = (prevAlloc > curNormal)
    /\ hBelow' = (a <= curNormal)
    /\ runLen' = IF RunContinues(a) THEN runLen + 1 ELSE IF RunStarts(a) THEN 1 ELSE 0
    /\ runBase' = IF RunContinues(a) THEN runBase
                  ELSE IF RunStarts(a) THEN curNormal ELSE 0
    /\ UNCHANGED <<sysVars, regVars, sigVars, chanVars, wdpc, srvVars, pc, op,
                   locVars, ret, shutReturned, panicked>>

\* case <-t.C
MonitorTick(a) ==
    /\ panicked = "no"
    /\ wdpc = "loop"
    /\ count < MaxStreak
    /\ count' = Sample(Monitor, a).count
    /\ highConsumption' = Sample(Monitor, a).highConsumption
    /\ prevAlloc' = Sample(Monitor, a).prevAlloc
    /\ curNormal' = Sample(Monitor, a).curNormal
    /\ hPrevAbove' = (prevAlloc > curNormal)
    /\ hBelow' = (a <= curNormal)
    /\ runLen' = IF RunContinues(a) THEN runLen + 1 ELSE IF RunStarts(a) THEN 1 ELSE 0
    /\ runBase' = IF RunContinues(a) THEN runBase
                  ELSE IF RunStarts(a) THEN curNormal ELSE 0
    /\ UNCHANGED <<sysVars, regVars, sigVars, chanVars, wdpc, srvVars, pc, op,
                   locVars, ret, shutReturned, panicked>>


\* MonitorReply that clears highConsumption once it has reported it.
MonitorReplyClearing(t) ==
    /\ panicked = "no"
    /\ wdpc = "loop"
    /\ Len(memReq) > 0 /\ t = Head(memReq)
    /\ memReq' = Tail(memReq)
    /\ resultCh' = [resultCh EXCEPT ![t] = Append(@, highConsumption)]
    /\ highConsumption' = FALSE
    /\ UNCHANGED <<sysVars, regVars, sigVars, memReqClosed, wdpc, count, prevAlloc,
                   curNormal, histVars, srvVars, pc, op, locVars, ret, shutReturned,
                   panicked>>

\* case req := <-l.memReq: req.Result <- highConsumption
MonitorReply(t) ==
    /\ panicked = "no"
    /\ wdpc = "loop"
    /\ Len(memReq) > 0 /\ t = Head(memReq)
    /\ memReq' = Tail(memReq)
    /\ resultCh' = [resultCh EXCEPT ![t] = Append(@, highConsumption)]
    /\ UNCHANGED <<sysVars, regVars, sigVars, memReqClosed, wdpc, monVars, histVars,
                   srvVars, pc, op, locVars, ret, shutReturned, panicked>>

\* case <-l.done: break loop
MonitorDone ==
    /\ panicked = "no"
    /\ wdpc = "loop"
    /\ done = "closed"
    /\ wdpc' = "drain"
    /\ UNCHANGED <<sysVars, regVars, sigVars, chanVars, monVars, histVars, srvVars,
                   pc, op, locVars, ret, shutReturned, panicked>>

\* second loop, case req := <-l.memReq: req.Result <- false
MonitorDrain(t) ==
    /\ panicked = "no"
    /\ wdpc = "drain"
    /\ Len(memReq) > 0 /\ t = Head(memReq)
    /\ memReq' = Tail(memReq)
    /\ resultCh' = [resultCh EXCEPT ![t] = Append(@, FALSE)]
    /\ UNCHANGED <<sysVars, regVars, sigVars, memReqClosed, wdpc, monVars, histVars,
                   srvVars, pc, op, locVars, ret, shutReturned, panicked>>

\* second loop, default: the select finds no request buffered
MonitorDefault ==
    /\ panicked = "no"
    /\ wdpc = "drain"
    /\ Len(memReq) = 0
    /\ wdpc' = "close"
    /\ UNCHANGED <<sysVars, regVars, sigVars, chanVars, monVars, histVars, srvVars,
                   pc, op, locVars, ret, shutReturned, panicked>>

\* second loop, default: close(l.memReq); return.  A request sent since the
\* select stays in the buffer of the closed channel.
MonitorExit ==
    /\ panicked = "no"
    /\ wdpc = "close"
    /\ memReqClosed' = TRUE
    /\ wdpc' = "exited"
    /\ UNCHANGED <<sysVars, regVars, sigVars, memReq, resultCh, monVars, histVars,
                   srvVars, pc, op, locVars, ret, shutReturned, panicked>>

\* ------------------------------------------------------- specifications
NewLocalSystem ==
    \/ \E ok \in BOOLEAN : NewCheckSettings(Main, ok)
    \/ \E ok \in BOOLEAN : NewSetupPool(Main, ok)
    \/ \E ok \in BOOLEAN : SetupGremlin(Main, ok)
    \/ \E ok \in BOOLEAN : SetupCayley(Main, ok)
    \/ SetupNilString(Main)
    \/ NewStartMonitor(Main)

Shutdown(t) ==
    \/ ShutdownCheck(t)
    \/ ShutdownSetFlag(t)
    \/ ShutdownCloseDone(t)
    \/ DataSourcesLock(t)
    \/ DataSourcesReturn(t)
    \/ ShutdownStop(t)
    \/ ShutdownCloseGraph(t)
    \/ ShutdownPoolStop(t)

AddSource(t) ==
    \/ AddSourceLock(t)
    \/ AddSourceRead(t)
    \/ AddSourceWrite(t)

HighMemoryConsumption(t) ==
    \/ HighMemoryCheck(t)
    \/ HighMemorySend(t)
    \/ HighMemoryRecv(t)

\* Shutdown while no collector is registered: the range over the data
\* sources has no iteration.
ShutdownNoSources(t) ==
    \/ ShutdownCheck(t)
    \/ ShutdownSetFlag(t)
    \/ ShutdownCloseDone(t)
    \/ DataSourcesLock(t)
    \/ DataSourcesReturn(t)
    \/ ShutdownCloseGraph(t)
    \/ ShutdownPoolStop(t)

\* One goroutine of each kind, where a specification needs no more.
OneShutdownCaller == <<"shut", 1>>
OneMemCaller == <<"mem", 1>>
OneAdder == <<"add", 1>>

\* A configuration with both graph databases.
InitBothGraphs == Init /\ cfg.gremlin /\ cfg.localdb

\* Shutdown and registration: the constructor, then a goroutine that
\* registers a collector and goroutines that shut the system down, beside the
\* monitor, which waits for the shutdown signal.
Next ==
    \/ NewLocalSystem
    \/ Shutdown(Main)
    \/ \E t \in ShutdownCallers : ShutdownCall(t) \/ Shutdown(t)
    \/ AddSourceCall(OneAdder)
    \/ AddAndStartCall(OneAdder)
    \/ \E ok \in BOOLEAN : Start(OneAdder, ok)
    \/ AddSource(OneAdder)
    \/ MonitorDone
    \/ MonitorDefault
    \/ MonitorExit

Spec == Init /\ [][Next]_vars

\* The registry: goroutines that register collectors one by one, one that
\* hands a list to SetDataSources and one that reads the registry.
NextRegistry ==
    \/ NewLocalSystem
    \/ ShutdownNoSources(Main)
    \/ \E t \in Adders : AddSourceCall(t) \/ AddAndStartCall(t)
    \/ SetDataSourcesCall(Setter)
    \/ \E t \in Adders \cup {Setter} : \E ok \in BOOLEAN : Start(t, ok)
    \/ \E t \in Adders \cup {Setter} : AddSource(t)
    \/ DataSourcesCall(Reader)
    \/ DataSourcesLock(Reader)
    \/ DataSourcesReturn(Reader)

SpecRegistry == InitBothGraphs /\ [][NextRegistry]_vars


\* The readings of stats.Alloc where only highConsumption matters.
QuerySamples == {0, OneGigabyte + 1}

\* Memory queries: goroutines that call HighMemoryConsumption and one that
\* calls Shutdown, beside the monitor, whose ticks read nothing allocated or
\* one value above the threshold.
NextQuery ==
    \/ NewLocalSystem
    \/ ShutdownNoSources(Main)
    \/ ShutdownCall(OneShutdownCaller)
    \/ ShutdownNoSources(OneShutdownCaller)
    \/ \E t \in MemCallers : HighMemoryConsumptionCall(t) \/ HighMemoryConsumption(t)
    \/ \E t \in MemCallers : MonitorReply(t)
    \/ MonitorDone
    \/ \E t \in MemCallers : MonitorDrain(t)
    \/ MonitorDefault
    \/ MonitorExit
    \/ \E a \in QuerySamples : count < MaxQueryStreak /\ MonitorTick(a)

SpecQuery == InitBothGraphs /\ [][NextQuery]_vars


\* The steps of the monitor once l.done is closed: case <-l.done, then the
\* second loop to its return.
MonitorAfterSignal ==
    \/ MonitorDone
    \/ \E t \in MemCallers : MonitorDrain(t)
    \/ MonitorDefault
    \/ MonitorExit

\* What the Go runtime guarantees of the monitor goroutine: it is run while it
\* can run, and its select, which picks among the ready cases at random, takes
\* case <-l.done in the end once l.done is closed.
FairMonitor == WF_vars(MonitorAfterSignal)

\* The same of the other goroutines of NextQuery: a goroutine inside a call
\* is run while it can run, and a request that stays buffered is received by
\* the first select in the end.  Nothing makes a caller call
\* HighMemoryConsumption or Shutdown.
FairQuery ==
    /\ FairMonitor
    /\ WF_vars(\E t \in MemCallers : MonitorReply(t))
    /\ \A t \in MemCallers : WF_vars(HighMemoryConsumption(t))
    /\ WF_vars(ShutdownNoSources(OneShutdownCaller))
    /\ WF_vars(NewLocalSystem \/ ShutdownNoSources(Main))

\* The monitor's way out: every caller asks for the memory state once and
\* Shutdown is called once, beside a fair monitor.
NextExit ==
    \/ NewLocalSystem
    \/ ShutdownNoSources(Main)
    \/ ShutdownsBegun = 0 /\ ShutdownCall(OneShutdownCaller)
    \/ ShutdownNoSources(OneShutdownCaller)
    \/ \E t \in MemCallers : op[t] = "none" /\ HighMemoryConsumptionCall(t)
    \/ \E t \in MemCallers : HighMemoryConsumption(t)
    \/ \E t \in MemCallers : MonitorReply(t)
    \/ MonitorAfterSignal
    \/ \E a \in QuerySamples : count < MaxQueryStreak /\ MonitorTick(a)

SpecExitFair == InitBothGraphs /\ [][NextExit]_vars /\ FairMonitor

\* NextQuery with every goroutine fair.
SpecQueryFair == InitBothGraphs /\ [][NextQuery]_vars /\ FairQuery

\* The monitor's arithmetic: every reading of AllocSamples at every tick,
\* with one goroutine asking for the memory state and one shutting down.
NextMonitor ==
    \/ NewLocalSystem
    \/ ShutdownNoSources(Main)
    \/ ShutdownCall(OneShutdownCaller)
    \/ ShutdownNoSources(OneShutdownCaller)
    \/ HighMemoryConsumptionCall(OneMemCaller)
    \/ HighMemoryConsumption(OneMemCaller)
    \/ MonitorReply(OneMemCaller)
    \/ MonitorDone
    \/ MonitorDrain(OneMemCaller)
    \/ MonitorDefault
    \/ MonitorExit
    \/ \E a \in AllocSamples : MonitorTick(a)

SpecMonitor == InitBothGraphs /\ [][NextMonitor]_vars


\* ------------------------------------------------------------------ claims
\* C1: for any number of Shutdown() calls in any interleaving, l.done is
\* closed at most once: no execution reaches a second close of the channel
\* (which in Go is the panic "close of closed channel").
C1_DoneClosedAtMostOnce == panicked # "close of closed channel"

\* A HighMemoryConsumption() call that began after a Shutdown() call returned.
LateMemCall(t) == op[t] = "HighMemoryConsumption" /\ late[t]

\* C2: a HighMemoryConsumption() call made after a Shutdown() call has
\* returned never reaches the send on l.memReq nor the receive from its result
\* channel, has no request in the channel, and returns false.
C2_FalseAfterShutdown ==
    \A t \in MemCallers :
        LateMemCall(t) =>
            /\ pc[t] \in {"hm_check", "idle"}
            /\ \A i \in 1..Len(memReq) : memReq[i] # t
            /\ pc[t] = "idle" => ret[t] = "false"

\* C2 witness: such a call has returned false.
C2_Witness ==
    \E t \in MemCallers : LateMemCall(t) /\ pc[t] = "idle" /\ ret[t] = "false"


InSetList(c) == \E i \in 1..SetLen : SetList[i] = c
StartedOk(c) == startRes[c] = "ok"
SetDataSourcesReturned == op[Setter] = "SetDataSources" /\ pc[Setter] = "idle"
AddAndStartReturned(t) == op[t] = "AddAndStart" /\ pc[t] = "idle"

\* C3: a collector whose Start() failed is never in the registry; no
\* collector is in it twice; once AddAndStart(c) has returned, c is in the
\* registry exactly if its Start() succeeded, and the call returned nil exactly
\* then; the entries SetDataSources was handed appear in the order of its list,
\* and once it has returned every entry has been attempted and the registered
\* ones are exactly, and in list order, those whose Start() succeeded.
C3_AdmissionCorrect ==
    /\ \A c \in Collectors : startRes[c] = "err" => c \notin Range(dataSources)
    /\ Cardinality(Range(dataSources)) = Len(dataSources)
    /\ \A t \in Adders :
          AddAndStartReturned(t) =>
              /\ ret[t] = IF StartedOk(t[2]) THEN "nil" ELSE "err"
              /\ t[2] \in Range(dataSources) <=> StartedOk(t[2])
    /\ IsPrefix(SelectSeq(dataSources, InSetList), SelectSeq(SetList, StartedOk))
    /\ SetDataSourcesReturned =>
          /\ \A i \in 1..SetLen : startRes[SetList[i]] # "none"
          /\ SelectSeq(dataSources, InSetList) = SelectSeq(SetList, StartedOk)

\* C3 witness: SetDataSources has returned, its first entry failed to start
\* and its last one started and is registered, and a direct AddAndStart
\* returned nil.
C3_Witness ==
    /\ SetDataSourcesReturned
    /\ startRes[SetList[1]] = "err"
    /\ startRes[SetList[SetLen]] = "ok"
    /\ SetList[SetLen] \in Range(dataSources)
    /\ \E t \in Adders : AddAndStartReturned(t) /\ ret[t] = "nil"

\* The collectors whose AddSource call has returned.
Appended ==
    {t[2] : t \in {u \in Adders : pc[u] = "idle" /\ ret[u] = "nil"}}
    \cup {SetList[i] : i \in {j \in 1..SetLen : j < idx[Setter] /\ StartedOk(SetList[j])}}

\* The collectors whose AddSource call has begun.
Appending ==
    Appended \cup {CurSrc(t) : t \in {u \in Adders \cup {Setter} :
                                        pc[u] \in {"as_lock", "as_read", "as_write"}}}

\* C4: concurrent AddSource calls lose no update and make no duplicate: the
\* registry holds every collector whose AddSource has returned and only
\* collectors whose AddSource has begun, each once, and every such call
\* returns nil; the registry only grows at its end, and every list
\* DataSources() returns extends the list it returned before.
C4_AppendOnly ==
    [][ /\ Appended' \subseteq Range(dataSources')
        /\ Range(dataSources') \subseteq Appending'
        /\ Cardinality(Range(dataSources')) = Len(dataSources')
        /\ \A t \in Adders : op'[t] = "AddSource" /\ pc'[t] = "idle" => ret'[t] = "nil"
        /\ IsPrefix(dataSources, dataSources')
        /\ IsPrefix(snap[Reader], snap'[Reader])
        /\ IsPrefix(snap'[Reader], dataSources') ]_vars

\* C4 witness: every adder's AddSource call has returned, the registry holds
\* their collectors, and the last list DataSources() returned holds them.
C4_Witness ==
    /\ \A t \in Adders : op[t] = "AddSource" /\ pc[t] = "idle" /\ ret[t] = "nil"
    /\ {t[2] : t \in Adders} \subseteq Range(dataSources)
    /\ idx[Reader] = MaxReads /\ pc[Reader] = "idle"
    /\ Len(snap[Reader]) >= NumAdders


\* C5: an AddSource call made after Shutdown() returns an error and leaves
\* the collector out of the registry, and AddSource never calls Start().
C5_LateAddSourceRejected ==
    \A t \in Adders :
        (op[t] = "AddSource" /\ late[t] /\ pc[t] = "idle") =>
            /\ ret[t] = "err"
            /\ t[2] \notin Range(dataSources)
            /\ startRes[t[2]] = "none"

\* The state Shutdown() leaves behind: signal closed, every registered
\* collector stopped, every graph closed, pool stopped.
TornDown ==
    /\ done = "closed"
    /\ \A c \in Range(dataSources) : stopped[c]
    /\ \A g \in Range(graphs) : closeCount[g] >= 1
    /\ pool = "stopped"

\* What a caller can observe of the system: the signal, which collectors are
\* stopped, which graphs are closed, the pool, the monitor, a panic.
Observable ==
    <<done, stopped, {g \in Backends : closeCount[g] >= 1}, pool, wdpc,
      memReqClosed, panicked>>

\* The step is one of thread t.
StepOf(t) == <<pc[t], idx[t]>> # <<pc'[t], idx'[t]>>

\* C6: a Shutdown() call made after an earlier one returned, on a system that
\* is torn down, changes nothing observable at any of its steps, leaves the
\* system torn down, does not panic and returns nil.
C6_RepeatedShutdown ==
    [][ \A t \in ShutdownCallers :
          (late[t] /\ InShutdown(t) /\ TornDown /\ StepOf(t)) =>
              /\ Observable' = Observable
              /\ TornDown'
              /\ pc'[t] = "idle" => ret'[t] = "nil" ]_vars

\* C6 witness: a second Shutdown() call has returned nil on a torn down
\* system with a registered collector and two graphs.
C6_Witness ==
    /\ \E t \in ShutdownCallers :
          late[t] /\ op[t] = "Shutdown" /\ pc[t] = "idle" /\ ret[t] = "nil"
    /\ shutReturned >= 2
    /\ TornDown
    /\ Len(dataSources) >= 1
    /\ Len(graphs) = 2

C8_Hysteresis ==
    (hPrevAbove /\ hBelow) => (~highConsumption /\ count = 0)

\* C8 witness: a sample above curNormal was followed by one equal to it,
\* and count is back at 0.
C8_Witness ==
    /\ hPrevAbove /\ hBelow
    /\ prevAlloc = OneGigabyte
    /\ count = 0

\* C9: curNormal never decreases.
C9_BaselineMonotonic == [][curNormal' >= curNormal]_vars

\* C9 witness: the threshold has been raised twice.
C9_Witness == curNormal > OneGigabyte + OneGigabyte \div 4

\* The Shutdown() calls, returned or running, that have closed graphs[i].
CallsPast(i) ==
    shutReturned
    + Cardinality({t \in Threads : \/ pc[t] = "sd_pool"
                                   \/ pc[t] = "sd_closeg" /\ idx[t] > i})

\* C10: with both graph databases configured, the system NewLocalSystem
\* returns owns both, the Gremlin graph first; and every Shutdown() call
\* closes each graph of l.graphs exactly once: a graph's Close() count is the
\* number of Shutdown() calls that have gone past it.
C10_BothGraphsClosedOnce ==
    /\ (Ready /\ cfg.gremlin /\ cfg.localdb) => graphs = <<"gremlin", "cayley">>
    /\ \A i \in 1..Len(graphs) : closeCount[graphs[i]] = CallsPast(i)
    /\ \A g \in Backends \ Range(graphs) : closeCount[g] = 0

\* C10 witness: both graphs are owned, one Shutdown() call has returned and
\* none is running, and each graph has been closed once.
C10_Witness ==
    /\ Ready
    /\ graphs = <<"gremlin", "cayley">>
    /\ shutReturned = 1
    /\ \A t \in Threads : ~InShutdown(t)
    /\ \A g \in Backends : closeCount[g] = 1


\* setupGraphDBs returned an error and NewLocalSystem returned it.
SetupErrorReturned == pc[Main] = "failed" /\ pool # "nil"

\* C11: when the construction of a graph fails, NewLocalSystem returns the
\* error only after every graph opened before it has been closed (once) and
\* the resolver pool has been stopped; and as long as NewLocalSystem has not
\* returned a system, no monitor goroutine runs and no other goroutine has
\* a system to call.
C11_FailedSetupUnwinds ==
    /\ SetupErrorReturned =>
            /\ ret[Main] = "err"
            /\ \A i \in 1..Len(graphs) : closeCount[graphs[i]] = 1
            /\ pool = "stopped"
    /\ ret[Main] = "err" => pc[Main] = "failed"
    /\ ~Ready =>
            /\ wdpc = "none"
            /\ ret[Main] # "sys"
            /\ \A t \in Threads \ {Main} : pc[t] = "idle" /\ op[t] = "none"

\* C11 witness: the Gremlin graph was opened, the Cayley graph failed, and the
\* error was returned with the Gremlin graph closed and the pool stopped.
C11_Witness ==
    /\ SetupErrorReturned
    /\ graphs = <<"gremlin">>
    /\ closeCount["gremlin"] = 1
    /\ pool = "stopped"
    /\ wdpc = "none"

\* The resolver pool could not be built and NewLocalSystem returned.
PoolErrorReturned == pc[Main] = "failed" /\ ret[Main] = "err: no resolver pool"

\* C12: when the resolver pool cannot be built, NewLocalSystem returns its
\* error at once: no graph has been opened or is opened later, no monitor
\* goroutine runs, and no system was returned for anybody to call.
C12_PoolFailureContained ==
    /\ pool = "nil" =>
            /\ pc[Main] \in {"new_check", "new_pool", "failed"}
            /\ graphs = <<>>
            /\ wdpc = "none"
            /\ done = "open"
            /\ \A t \in Threads \ {Main} : pc[t] = "idle" /\ op[t] = "none"
    /\ ret[Main] = "err: no resolver pool" => pc[Main] = "failed" /\ pool = "nil"

\* C12 witness: NewLocalSystem returned the pool error.
C12_Witness == PoolErrorReturned /\ pool = "nil" /\ graphs = <<>> /\ wdpc = "none"


\* Within every Shutdown() call: Stop() has been called on every collector of
\* the slice DataSources() returned before the first Close(), and Close() on
\* every graph before l.pool.Stop().  The results of Stop() and Close() are
\* discarded by the code, so none of them can end the call early.
StopsThenClosesThenPool ==
    /\ \A t \in Threads :
          pc[t] \in {"sd_closeg", "sd_pool"} => \A c \in Range(snap[t]) : stopped[c]
    /\ \A t \in Threads :
          pc[t] = "sd_pool" => \A g \in Range(graphs) : closeCount[g] >= 1
    /\ pool = "stopped" => \A g \in Range(graphs) : closeCount[g] >= 1

\* C13: the teardown events of Shutdown() occur in order: l.done is closed
\* before Stop() is called on any collector, Stop() is called on every
\* registered collector before any graph's Close(), and Close() on every
\* graph before the pool's Stop().
C13_TeardownOrder ==
    /\ \A c \in Collectors : stopped[c] => done = "closed"
    /\ StopsThenClosesThenPool


\* The monitor puts an answer into the result channel of t's request.
Answers(t) == Len(resultCh'[t]) > Len(resultCh[t])

\* C14: once l.done is closed, every answer the monitor gives to a memory
\* query is false, whatever the last sample set highConsumption to.
C14_FalseOnceSignalled ==
    [][ \A t \in MemCallers :
          (done = "closed" /\ Answers(t)) =>
              resultCh'[t][Len(resultCh'[t])] = FALSE ]_vars


\* Thread t is inside a HighMemoryConsumption() call.
InHighMemory(t) == pc[t] \in {"hm_check", "hm_send", "hm_recv"}
HighMemoryReturned(t) == pc[t] = "idle" /\ ret[t] \in {"true", "false"}

\* C15: under fair scheduling every HighMemoryConsumption() call returns
\* true or false in the end, whatever the other callers and Shutdown() do.
C15_EveryQueryReturns ==
    \A t \in MemCallers : InHighMemory(t) ~> HighMemoryReturned(t)


\* The monitor has taken case <-l.done: it is past its first loop.
SignalObserved == wdpc \in {"drain", "close", "exited"}

\* C16: once l.done is closed the running monitor leaves its first loop,
\* empties l.memReq and returns, in the end, however many requests are
\* buffered; and once it has taken case <-l.done it never goes back to the
\* first loop and no step changes count, highConsumption, prevAlloc or
\* curNormal.
C16_MonitorExits ==
    /\ (done = "closed" /\ wdpc # "none") ~> (wdpc = "exited")
    /\ [][SignalObserved => SignalObserved' /\ UNCHANGED monVars]_vars

\* C16 witness: the monitor has returned with the last sample above the
\* threshold, and every caller has an answer false waiting in its result
\* channel.
C16_Witness ==
    /\ wdpc = "exited"
    /\ highConsumption
    /\ \A t \in MemCallers : pc[t] = "hm_recv" /\ resultCh[t] = <<FALSE>>


\* A tick whose sample is above the sample before it, with count at maxCount
\* or more before the tick.  (Only ticks change prevAlloc.)
RaisingTick == wdpc = "loop" /\ count >= maxCount /\ prevAlloc' > prevAlloc

LastTickHigh == prevAlloc > curNormal

\* The call of t returns at this step.
Returns(t) == pc[t] = "hm_recv" /\ pc'[t] = "idle"

\* C18: an answer the monitor gives while l.done is open is what the most
\* recent tick found (false before the first tick), the step that gives it
\* changes none of count, highConsumption, prevAlloc and curNormal, and the
\* call returns the answer it was given.
C18_AnswerIsLastTick ==
    [][ \A t \in MemCallers :
          /\ (done = "open" /\ Answers(t)) =>
                /\ resultCh'[t] = Append(resultCh[t], LastTickHigh)
                /\ UNCHANGED monVars
          /\ Returns(t) =>
                ret'[t] = IF Head(resultCh[t]) THEN "true" ELSE "false" ]_vars

\* C18 witness: before any Shutdown() a call has returned true, the last
\* tick having read a sample above the threshold.
C18_Witness ==
    /\ done = "open" /\ ~doneAlreadyClosed
    /\ LastTickHigh
    /\ \E t \in MemCallers : pc[t] = "idle" /\ ret[t] = "true"


\* C19: no HighMemoryConsumption() call sends its request on l.memReq after
\* the monitor has closed that channel (in Go such a send is the panic "send
\* on closed channel").
C19_NoSendOnClosedMemReq == panicked # "send on closed channel"


\* A Shutdown() call has returned and none is running.
ShutdownOver == shutReturned >= 1 /\ \A t \in Threads : ~InShutdown(t)

\* The AddSource or AddAndStart call of t began before any Shutdown() call had
\* returned, has returned, and its collector is in the registry.
RegisteredInTime(t) ==
    /\ op[t] \in {"AddSource", "AddAndStart"}
    /\ ~late[t]
    /\ pc[t] = "idle"
    /\ t[2] \in Range(dataSources)

\* C20: once Shutdown() has returned and the registering calls that ran
\* beside it have returned too, Stop() has been called on every collector
\* they put into the registry.
C20_RegisteredAreStopped ==
    ShutdownOver => \A t \in Adders : RegisteredInTime(t) => stopped[t[2]]

====
